---- MODULE Spec2Model ----
(***************************************************************************)
(* Model of src/src/ai_summarization/agent.py: the SummarizationAgent      *)
(* (image hash database, image extraction, caption fan-out, the per        *)
(* document analysis session with its teardown) and process_pdf_batch.     *)
(*                                                                         *)
(* Scheduling is asyncio's: one task runs at a time and keeps control      *)
(* until it reaches an await (asyncio.sleep, asyncio.gather).  The         *)
(* variable "running" names the task in control, 0 when the event loop     *)
(* is choosing.  Every OpenAI client call in the file is synchronous.      *)
(***************************************************************************)
EXTENDS Integers, Sequences, FiniteSets, TLC

\* ------------------------------------------------------------------ bounds
NumDocs == 2
MaxImgs == 2
MaxPages == 2
NumBytes == 2
SessionImgs == 1
CaptionImgs == 2
BatchImgs == 1
MaxSummaries == 3
MessageImgs == 2
SkipImgs == 3
ParImgs == 2
SiblingImgs == 2
FilterImgs == 1
MaxPolls == 2
BatchPolls == 1
MaxCalls == 3
NumJobs == 1
JobPolls == 1

\* -------------------------------------------------------- program constants
SizeThreshold == 100
Missing == -1

Docs == 1..NumDocs

\* ------------------------------------------------------------------ inputs
\* What doc.extract_image(xref) yields for one embedded image: it raises, it
\* returns nothing, or it returns a dict with the bytes and (possibly absent)
\* width and height.
Dims == {Missing, 0, 99, 100, 101, 200}

Undecodable(how) == [decode : how, bytes : {0}, width : {Missing}, height : {Missing}]

Decoded(widths, heights) ==
    [decode : {"ok"}, bytes : 1..NumBytes, width : widths, height : heights]

AllShapes ==
    Undecodable({"raise", "empty"}) \cup [decode : {"ok"}, bytes : {1}, width : Dims, height : Dims]
ExtractPool == Undecodable({"raise"}) \cup Decoded({100, 101}, {100})
BigImages == Decoded({120}, {200})
BatchPool == [decode : {"ok"}, bytes : {1}, width : {120}, height : {200}]
SessionPool == {[decode |-> "ok", bytes |-> 1, width |-> 120, height |-> 200],
                [decode |-> "ok", bytes |-> 2, width |-> 50, height |-> 50]}

DbInitOutcomes == {"ok", "mkdir_error", "sqlite_error"}
DbOutcomes == {"ok", "select_error", "insert_error"}

VARIABLES
    limits,        \* the sets this specification draws the environment's inputs from
    image_hashes,  \* rows of table image_hashes in /app/data/image_hashes.db
    agent,         \* agent[d]: the SummarizationAgent instance that handles document d
    conn,          \* conn[a]: self.conn of agent a is set
    assistant,     \* assistant[a]: self._assistant of agent a is set
    ctorRaised,    \* some SummarizationAgent() raised
    running,       \* the task in control, 0 for the event loop
    pc,            \* pc[d]: where document d's task is
    page_num,      \* page_num[d]
    img_index,     \* img_index[d]
    images,        \* images[d]: extracted_images of document d
    log,           \* history of the embedded images processed so far
    extracted,     \* extracted[d]: what extract_images_from_pdf returned
    capcalls,      \* capcalls[d][i]: what the caption request of image i did
    capOrder,      \* capOrder[d]: the caption tasks in the order they finished
    image_captions_text, \* image_captions_text[d]: the caption lines of d's prompt
    file_id,       \* file_id[d]: the local variable file_id ("unbound" or "set")
    thread,        \* thread[d]: the local variable thread ("unbound" or "set")
    files,         \* files[d]: the uploaded document at the remote end
    threads,       \* threads[d]: the conversation at the remote end
    delThreadCalls, \* number of client.beta.threads.delete calls of d's session
    delFileCalls,  \* number of client.files.delete calls of d's session
    run,           \* run[d]: the run object last received
    polls,         \* polls[d]: number of runs.retrieve calls
    failedAt,      \* failedAt[d]: the stage whose call raised, "none" if none did
    pending,       \* pending[d]: what the try/except body decided to return
    finallyExc,    \* finallyExc[d]: the exception raised inside finally, or "none"
    result,        \* result[d]: how the coroutine process_pdf_document ended
    doneOrder,     \* the documents in the order their tasks finished
    batch,         \* what process_pdf_batch returned
    cancelled,     \* cancelled[d]: the await at which d's task was cancelled, or "no"
    summaries,     \* the list handed to ReportGenerator.generate_report
    report,        \* what generate_report returned
    inhand,        \* inhand[d]: the image a parallel extraction has looked up and not yet inserted
    self_assistant,    \* self._assistant of the instance whose get_or_create_assistant is called: 0 for None, else the assistant's id
    cache_file,        \* cache_file[p]: content of .cached_assistant_id_<p>.json
    remote_assistants, \* how many assistants exist at the remote service (ids 1..remote_assistants)
    lastCall,          \* what the latest get_or_create_assistant call did
    tally,             \* what the calls on the instance did so far
    background_tasks,  \* the module-level set background_tasks
    callbacks          \* callbacks[d]: task d's done callback is "none", "registered" or "run"

extractVars == <<page_num, img_index, images, log, image_hashes>>
captionVars == <<extracted, capcalls, capOrder, image_captions_text>>
remoteVars == <<file_id, thread, files, threads, delThreadCalls, delFileCalls>>
sessionVars == <<run, polls, failedAt, pending, finallyExc>>
agentVars == <<limits, agent, conn, assistant, ctorRaised>>
batchVars == <<result, doneOrder, batch, cancelled>>

reportVars == <<summaries, report>>
parVars == <<inhand>>
profileVars == <<self_assistant, cache_file, remote_assistants, lastCall, tally>>
jobVars == <<background_tasks, callbacks>>

vars == <<agentVars, running, pc, extractVars, captionVars, remoteVars, sessionVars,
          batchVars, reportVars, parVars, profileVars, jobVars>>

\* --------------------------------------------------------- pure functions
Nothing == [kind |-> "none"]
NoRun == [status |-> "none", last_error |-> "None"]

Get(v, default) == IF v = Missing THEN default ELSE v

Sha256(bytes) == <<"sha256", bytes>>

B64Encode(bytes) == <<"b64", bytes>>

Range(s) == {s[i] : i \in 1..Len(s)}

\* agent.py:134
SkipSmallLt(base_image) ==
    Get(base_image.width, 0) < SizeThreshold /\ Get(base_image.height, 0) < SizeThreshold

SkipSmall(base_image) ==
    Get(base_image.width, 0) <= SizeThreshold /\ Get(base_image.height, 0) <= SizeThreshold

\* _init_image_hash_db with the outcome o of makedirs / sqlite3.connect
InitImageHashDbNoCatch(o) ==
    [conn |-> o = "ok", raised |-> o # "ok"]

InitImageHashDb(o) ==
    [conn |-> o = "ok", raised |-> FALSE]

\* One pass of the inner loop body of extract_images_from_pdf (agent.py:126-187)
\* for embedded image img at (page, index): the verdict, the record appended (if
\* any) and the table afterwards.  dbo is what the database does, saveOk whether
\* the scratch file could be written.
ImageRecordSavedAlways(img, page, index, saveOk) ==
    [page |-> page, index |-> index, format |-> "png",
     width |-> Get(img.width, 0), height |-> Get(img.height, 0),
     base64 |-> B64Encode(img.bytes),
     filepath |-> "saved",
     hash |-> Sha256(img.bytes)]

ImageRecord(img, page, index, saveOk) ==
    [page |-> page, index |-> index, format |-> "png",
     width |-> Get(img.width, 0), height |-> Get(img.height, 0),
     base64 |-> B64Encode(img.bytes),
     filepath |-> IF saveOk THEN "saved" ELSE "None",
     hash |-> Sha256(img.bytes)]

\* Without the "if not base_image" test and the inner except the image that
\* could not be decoded goes on to be appended.
ProcessImageKeepsUndecodable(c, table, img, page, index, dbo, saveOk) ==
    IF img.decode = "ok" /\ SkipSmall(img) THEN [verdict |-> "small", table |-> table]
    ELSE IF ~c THEN [verdict |-> "accepted", table |-> table]
    ELSE IF dbo = "select_error" THEN [verdict |-> "accepted", table |-> table]
    ELSE IF Sha256(img.bytes) \in Range(table) THEN [verdict |-> "duplicate", table |-> table]
    ELSE IF dbo = "insert_error" THEN [verdict |-> "accepted", table |-> table]
    ELSE [verdict |-> "accepted", table |-> Append(table, Sha256(img.bytes))]

\* Without the INSERT the image is accepted and nothing is recorded.
ProcessImageNoInsert(c, table, img, page, index, dbo, saveOk) ==
    IF img.decode # "ok" THEN [verdict |-> "undecodable", table |-> table]
    ELSE IF SkipSmall(img) THEN [verdict |-> "small", table |-> table]
    ELSE IF ~c THEN [verdict |-> "accepted", table |-> table]
    ELSE IF dbo = "select_error" THEN [verdict |-> "accepted", table |-> table]
    ELSE IF Sha256(img.bytes) \in Range(table) THEN [verdict |-> "duplicate", table |-> table]
    ELSE [verdict |-> "accepted", table |-> table]

ProcessImageNoSelect(c, table, img, page, index, dbo, saveOk) ==
    IF img.decode # "ok" THEN [verdict |-> "undecodable", table |-> table]
    ELSE IF SkipSmall(img) THEN [verdict |-> "small", table |-> table]
    ELSE [verdict |-> "accepted",
          table |-> IF c /\ dbo = "ok" /\ Sha256(img.bytes) \notin Range(table)
                    THEN Append(table, Sha256(img.bytes)) ELSE table]

\* Without the "if self.conn:" test the cursor() call on None raises and the
\* inner except drops the image.
ProcessImageNoConnCheck(c, table, img, page, index, dbo, saveOk) ==
    IF img.decode # "ok" THEN [verdict |-> "undecodable", table |-> table]
    ELSE IF SkipSmall(img) THEN [verdict |-> "small", table |-> table]
    ELSE IF ~c THEN [verdict |-> "error", table |-> table]
    ELSE IF dbo = "select_error" THEN [verdict |-> "accepted", table |-> table]
    ELSE IF Sha256(img.bytes) \in Range(table) THEN [verdict |-> "duplicate", table |-> table]
    ELSE IF dbo = "insert_error" THEN [verdict |-> "accepted", table |-> table]
    ELSE [verdict |-> "accepted", table |-> Append(table, Sha256(img.bytes))]

ProcessImage(c, table, img, page, index, dbo, saveOk) ==
    IF img.decode # "ok" THEN [verdict |-> "undecodable", table |-> table]
    ELSE IF SkipSmall(img) THEN [verdict |-> "small", table |-> table]
    ELSE IF ~c THEN [verdict |-> "accepted", table |-> table]
    ELSE IF dbo = "select_error" THEN [verdict |-> "accepted", table |-> table]
    ELSE IF Sha256(img.bytes) \in Range(table) THEN [verdict |-> "duplicate", table |-> table]
    ELSE IF dbo = "insert_error" THEN [verdict |-> "accepted", table |-> table]
    ELSE [verdict |-> "accepted", table |-> Append(table, Sha256(img.bytes))]

\* ------------------------------------------------------------- extraction
\* extract_images_from_pdf is entered for document d: called directly, or as the
\* first statement of process_pdf_document when the event loop first runs its
\* task (agent.py:238).  With limits.ordered the documents are taken in turn.
StartExtract(d) ==
    /\ running = 0
    /\ d \in limits.docs
    /\ limits.ordered => \A e \in limits.docs : e < d => pc[e] # "new"
    /\ pc[d] = "new"
    /\ running' = d
    /\ pc' = [pc EXCEPT ![d] = "extract"]
    /\ UNCHANGED <<agentVars, extractVars, captionVars, remoteVars, sessionVars, batchVars, reportVars, parVars, profileVars, jobVars>>

\* The loop body for the next embedded image of the current page.
ExtractImage(d) ==
    /\ running = d
    /\ pc[d] = "extract"
    /\ Len(log) < limits.maxImgs
    /\ \E img \in limits.pool, dbo \in limits.dbOutcomes, saveOk \in limits.saveOutcomes :
         LET index == img_index[d] + 1
             r == ProcessImage(conn[agent[d]], image_hashes, img, page_num[d], index, dbo, saveOk)
         IN  /\ (dbo # "ok") => (conn[agent[d]] /\ img.decode = "ok" /\ ~SkipSmall(img))
             /\ (dbo = "insert_error") => (Sha256(img.bytes) \notin Range(image_hashes))
             /\ (~saveOk) => (r.verdict = "accepted")
             /\ img_index' = [img_index EXCEPT ![d] = index]
             /\ image_hashes' = r.table
             /\ images' = [images EXCEPT ![d] =
                    IF r.verdict = "accepted"
                    THEN Append(@, ImageRecord(img, page_num[d], index, saveOk))
                    ELSE @]
             /\ log' = Append(log, [doc |-> d, page |-> page_num[d], index |-> index,
                                    img |-> img, conn |-> conn[agent[d]], dbo |-> dbo,
                                    saveOk |-> saveOk, verdict |-> r.verdict])
    /\ UNCHANGED <<agentVars, running, pc, page_num, captionVars, remoteVars, sessionVars, batchVars, reportVars, parVars, profileVars, jobVars>>

\* The outer loop moves to the next page.
NextPage(d) ==
    /\ running = d
    /\ pc[d] = "extract"
    /\ page_num[d] < limits.maxPages
    /\ page_num' = [page_num EXCEPT ![d] = @ + 1]
    /\ img_index' = [img_index EXCEPT ![d] = 0]
    /\ UNCHANGED <<agentVars, running, pc, images, log, image_hashes, captionVars, remoteVars, sessionVars, batchVars, reportVars, parVars, profileVars, jobVars>>

\* makedirs, fitz.open, the page iteration or page.get_images raises: the outer
\* except logs it and the function returns the list as it stands (agent.py:189-192).
DocErrorNoCatch(imgs) == [raised |-> TRUE, images |-> imgs]

DocError(imgs) == [raised |-> FALSE, images |-> imgs]

ExtractDocError(d) ==
    /\ running = d
    /\ pc[d] = "extract"
    /\ LET o == DocError(images[d])
       IN  /\ pc' = [pc EXCEPT ![d] = IF o.raised THEN "extract_raised" ELSE "extract_failed"]
           /\ images' = [images EXCEPT ![d] = o.images]
    /\ page_num' = [page_num EXCEPT ![d] = 1]
    /\ img_index' = [img_index EXCEPT ![d] = 0]
    /\ UNCHANGED <<agentVars, running, log, image_hashes, captionVars, remoteVars,
                   sessionVars, batchVars, reportVars, parVars, profileVars, jobVars>>

\* The loops end; the function's locals page_num and img_index are gone.
ExtractEnd(d) ==
    /\ running = d
    /\ pc[d] = "extract"
    /\ pc' = [pc EXCEPT ![d] = "extract_end"]
    /\ page_num' = [page_num EXCEPT ![d] = 1]
    /\ img_index' = [img_index EXCEPT ![d] = 0]
    /\ UNCHANGED <<agentVars, running, images, log, image_hashes, captionVars, remoteVars,
                   sessionVars, batchVars, reportVars, parVars, profileVars, jobVars>>

\* return images, to a direct caller.
ExtractReturn(d) ==
    /\ running = d
    /\ pc[d] \in {"extract_end", "extract_failed"}
    /\ pc' = [pc EXCEPT ![d] = "returned"]
    /\ running' = 0
    /\ UNCHANGED <<agentVars, extractVars, captionVars, remoteVars, sessionVars, batchVars, reportVars, parVars, profileVars, jobVars>>

\* ---------------------------------------------------------------- captions
Sentinel == <<"Error generating caption">>

Texts == {<<"A">>, <<" ", "A", " ">>}

\* What client.chat.completions.create does for one image: it raises, it answers
\* with no content, or it answers with a text.
CaptionResponses ==
    {[kind |-> "raise"], [kind |-> "no_content"]} \cup [kind : {"text"}, text : Texts]

RECURSIVE LStrip(_)
LStrip(t) == IF t # <<>> /\ Head(t) = " " THEN LStrip(Tail(t)) ELSE t

RECURSIVE RStrip(_)
RStrip(t) == IF t # <<>> /\ t[Len(t)] = " " THEN RStrip(SubSeq(t, 1, Len(t) - 1)) ELSE t

\* str.strip()
Strip(t) == RStrip(LStrip(t))

SetKey(r, k, v) == [f \in DOMAIN r \cup {k} |-> IF f = k THEN v ELSE r[f]]

\* caption_image after its sleep (agent.py:196-223): whether it raises and the
\* caption it stores in image_data.
CaptionOutcomeNoExcept(resp) ==
    IF resp.kind = "text"
    THEN [raised |-> FALSE, caption |-> Strip(resp.text)]
    ELSE [raised |-> TRUE, caption |-> Sentinel]

CaptionOutcome(resp) ==
    IF resp.kind = "text"
    THEN [raised |-> FALSE, caption |-> Strip(resp.text)]
    ELSE [raised |-> FALSE, caption |-> Sentinel]

\* asyncio.gather over the caption coroutines (agent.py:241-243): the results in
\* the order of the awaitables, whatever the order of completion.
GatherCaptionsByArrival(imgs, order) == [i \in DOMAIN imgs |-> imgs[order[i]]]

GatherCaptions(imgs, order) == imgs

\* ----------------------------------------------------------------- session
Statuses == {"queued", "in_progress", "completed", "failed", "cancelled", "expired"}
Terminal == {"completed", "failed", "cancelled", "expired"}

Runs == {r \in [status : Statuses, last_error : {"None", "server_error"}] :
            r.last_error # "None" => r.status = "failed"}

PdfPath(d) == <<"/app/tmp", d>>

\* os.path.basename
Basename(path) == path[Len(path)]

Return(v) == [kind |-> "return", value |-> v]
Raise(e) == [kind |-> "raise", exc |-> e]

\* agent.py:312
ExcArtifact(d, e) ==
    [success |-> FALSE, error |-> <<"str", e>>,
     metadata |-> [filename |-> Basename(PdfPath(d))]]

\* agent.py:290
StatusArtifactNoDetail(r) ==
    [success |-> FALSE, error |-> <<"Processing failed">>]

StatusArtifact(r) ==
    [success |-> FALSE,
     error |-> <<"Processing failed with status: ", r.status, ", Last error: ", r.last_error>>]

\* agent.py:301-308
SuccessArtifactWithError(d, summary, imgs) ==
    [success |-> TRUE, summary |-> summary, error |-> <<"str", "None">>,
     metadata |-> [filename |-> Basename(PdfPath(d)), extracted_images_data |-> imgs]]

SuccessArtifact(d, summary, imgs) ==
    [success |-> TRUE, summary |-> summary,
     metadata |-> [filename |-> Basename(PdfPath(d)), extracted_images_data |-> imgs]]

\* agent.py:293-297
SummaryText(o) ==
    IF o = "text" THEN "summary" ELSE "Assistant response not found or invalid format."

\* get_or_create_assistant(profile="pdf_summarizer") (agent.py:69-107) with the
\* instance's cache and the outcome of the remote retrieve/create.
GetOrCreateAssistant(cached, o) ==
    IF cached THEN [raised |-> FALSE, cached |-> TRUE]
    ELSE IF o = "ok" THEN [raised |-> FALSE, cached |-> TRUE]
    ELSE [raised |-> TRUE, cached |-> FALSE]

\* One step of the finally block (agent.py:316-321 for the thread, 323-328 for
\* the file): "if <name>:" on a local that was never assigned raises
\* UnboundLocalError; otherwise the delete call is made once and its failure is
\* logged and dropped.
CleanupStepPropagate(binding, remote, delOk) ==
    IF binding = "unbound"
    THEN [exc |-> "UnboundLocalError", calls |-> 0, remote |-> remote]
    ELSE [exc |-> IF delOk THEN "none" ELSE "APIError", calls |-> 1,
          remote |-> IF delOk THEN "deleted" ELSE remote]

CleanupStepRetry(binding, remote, delOk) ==
    IF binding = "unbound"
    THEN [exc |-> "UnboundLocalError", calls |-> 0, remote |-> remote]
    ELSE [exc |-> "none", calls |-> IF delOk THEN 1 ELSE 2,
          remote |-> IF delOk THEN "deleted" ELSE remote]

CleanupStep(binding, remote, delOk) ==
    IF binding = "unbound"
    THEN [exc |-> "UnboundLocalError", calls |-> 0, remote |-> remote]
    ELSE [exc |-> "none", calls |-> 1, remote |-> IF delOk THEN "deleted" ELSE remote]

\* A remote call of stage "stage" raised: the except clause (agent.py:310-312)
\* decides on the failure artifact and control passes to finally.
FailSwallowed(d, stage) ==
    /\ failedAt' = [failedAt EXCEPT ![d] = stage]
    /\ UNCHANGED <<pending, pc>>

Fail(d, stage) ==
    /\ failedAt' = [failedAt EXCEPT ![d] = stage]
    /\ pending' = [pending EXCEPT ![d] = Return(ExcArtifact(d, stage))]
    /\ pc' = [pc EXCEPT ![d] = "finally_thread"]

\* asyncio.gather(*[caption_image(...)]) is awaited (agent.py:241): with no
\* image the gather is already done and the task keeps control.
BeginCaptions(d) ==
    /\ running = d
    /\ pc[d] \in {"extract_end", "extract_failed"}
    /\ extracted' = [extracted EXCEPT ![d] = images[d]]
    /\ capcalls' = [capcalls EXCEPT ![d] = [i \in 1..Len(images[d]) |-> Nothing]]
    /\ IF images[d] = <<>>
       THEN pc' = [pc EXCEPT ![d] = "upload"] /\ UNCHANGED running
       ELSE pc' = [pc EXCEPT ![d] = "captioning"] /\ running' = 0
    /\ UNCHANGED <<agentVars, extractVars, capOrder, image_captions_text, remoteVars,
                   sessionVars, batchVars, reportVars, parVars, profileVars, jobVars>>

\* The caption task of image i wakes from its sleep, makes its request and ends.
CaptionImage(d, i) ==
    /\ running = 0
    /\ pc[d] = "captioning"
    /\ i \in 1..Len(capcalls[d])
    /\ capcalls[d][i] = Nothing
    /\ \E resp \in limits.responses :
         LET o == CaptionOutcome(resp)
         IN  /\ capcalls' = [capcalls EXCEPT ![d][i] = resp]
             /\ capOrder' = [capOrder EXCEPT ![d] = Append(@, i)]
             /\ IF o.raised
                THEN /\ running' = d
                     /\ Fail(d, "caption")
                     /\ UNCHANGED images
                ELSE /\ images' = [images EXCEPT ![d][i] = SetKey(@, "caption", o.caption)]
                     /\ UNCHANGED <<running, pc, failedAt, pending>>
    /\ UNCHANGED <<agentVars, page_num, img_index, log, image_hashes, extracted,
                   image_captions_text,
                   remoteVars, run, polls, finallyExc, batchVars, reportVars, parVars, profileVars, jobVars>>

\* Every caption task has ended: the gather gives its list and the task goes on.
EndCaptions(d) ==
    /\ running = 0
    /\ pc[d] = "captioning"
    /\ \A i \in 1..Len(capcalls[d]) : capcalls[d][i] # Nothing
    /\ images' = [images EXCEPT ![d] = GatherCaptions(@, capOrder[d])]
    /\ running' = d
    /\ pc' = [pc EXCEPT ![d] = "upload"]
    /\ UNCHANGED <<agentVars, page_num, img_index, log, image_hashes, captionVars,
                   remoteVars, sessionVars, batchVars, reportVars, parVars, profileVars, jobVars>>

\* open(pdf_path) and client.files.create (agent.py:246-248)
Upload(d) ==
    /\ running = d
    /\ pc[d] = "upload"
    /\ \E ok \in limits.calls :
         IF ok
         THEN /\ files' = [files EXCEPT ![d] = "exists"]
              /\ file_id' = [file_id EXCEPT ![d] = "set"]
              /\ pc' = [pc EXCEPT ![d] = "assistant"]
              /\ UNCHANGED <<failedAt, pending>>
         ELSE Fail(d, "upload") /\ UNCHANGED <<files, file_id>>
    /\ UNCHANGED <<agentVars, running, extractVars, captionVars, thread, threads,
                   delThreadCalls, delFileCalls, run, polls, finallyExc, batchVars, reportVars, parVars, profileVars, jobVars>>

\* self.get_or_create_assistant(profile="pdf_summarizer") (agent.py:250)
ResolveAssistant(d) ==
    /\ running = d
    /\ pc[d] = "assistant"
    /\ \E o \in {IF ok THEN "ok" ELSE "create_error" : ok \in limits.calls} :
         LET g == GetOrCreateAssistant(assistant[agent[d]], o)
         IN  /\ (o # "ok") => ~assistant[agent[d]]
             /\ assistant' = [assistant EXCEPT ![agent[d]] = g.cached]
             /\ IF g.raised
                THEN Fail(d, "assistant")
                ELSE pc' = [pc EXCEPT ![d] = "thread"] /\ UNCHANGED <<failedAt, pending>>
    /\ UNCHANGED <<limits, agent, conn, ctorRaised, running, extractVars, captionVars,
                   remoteVars, run, polls, finallyExc, batchVars, reportVars, parVars, profileVars, jobVars>>

\* client.beta.threads.create() (agent.py:254)
CreateThread(d) ==
    /\ running = d
    /\ pc[d] = "thread"
    /\ \E ok \in limits.calls :
         IF ok
         THEN /\ threads' = [threads EXCEPT ![d] = "exists"]
              /\ thread' = [thread EXCEPT ![d] = "set"]
              /\ pc' = [pc EXCEPT ![d] = "message"]
              /\ UNCHANGED <<failedAt, pending>>
         ELSE Fail(d, "thread") /\ UNCHANGED <<threads, thread>>
    /\ UNCHANGED <<agentVars, running, extractVars, captionVars, file_id, files,
                   delThreadCalls, delFileCalls, run, polls, finallyExc, batchVars, reportVars, parVars, profileVars, jobVars>>

\* One item of the join (agent.py:256): page, index, the saved path or 'No',
\* and d.get('caption', 'N/A').
CaptionLine(rec) ==
    [page |-> rec.page, index |-> rec.index,
     saved |-> IF rec.filepath = "None" THEN "No" ELSE rec.filepath,
     caption |-> IF "caption" \in DOMAIN rec THEN rec.caption ELSE <<"N/A">>]

\* A prompt that lists only the images whose caption request worked.
RECURSIVE ImageCaptionsTextSkipsFailed(_)
ImageCaptionsTextSkipsFailed(imgs) ==
    IF imgs = <<>> THEN <<>>
    ELSE IF "caption" \in DOMAIN Head(imgs) /\ Head(imgs).caption = Sentinel
         THEN ImageCaptionsTextSkipsFailed(Tail(imgs))
         ELSE <<CaptionLine(Head(imgs))>> \o ImageCaptionsTextSkipsFailed(Tail(imgs))

\* image_captions_text (agent.py:255-258): the lines that "\n".join puts
\* together, one for each element of extracted_images, in its order.
ImageCaptionsText(imgs) == [i \in 1..Len(imgs) |-> CaptionLine(imgs[i])]

\* The prompt is built and client.beta.threads.messages.create is called
\* (agent.py:255-275)
SendMessage(d) ==
    /\ running = d
    /\ pc[d] = "message"
    /\ image_captions_text' = [image_captions_text EXCEPT ![d] =
            [kind |-> "lines", lines |-> ImageCaptionsText(images[d])]]
    /\ \E ok \in limits.calls :
         IF ok
         THEN pc' = [pc EXCEPT ![d] = "run"] /\ UNCHANGED <<failedAt, pending>>
         ELSE Fail(d, "message")
    /\ UNCHANGED <<agentVars, running, extractVars, extracted, capcalls, capOrder, remoteVars,
                   run, polls, finallyExc, batchVars, reportVars, parVars, profileVars, jobVars>>

\* client.beta.threads.runs.create (agent.py:278-283)
CreateRun(d) ==
    /\ running = d
    /\ pc[d] = "run"
    /\ \/ /\ TRUE \in limits.calls
          /\ \E r \in limits.runs :
               /\ (r.status \notin Terminal) => (polls[d] < limits.maxPolls)
               /\ run' = [run EXCEPT ![d] = r]
          /\ pc' = [pc EXCEPT ![d] = "loop"]
          /\ UNCHANGED <<failedAt, pending>>
       \/ FALSE \in limits.calls /\ Fail(d, "run") /\ UNCHANGED run
    /\ UNCHANGED <<agentVars, running, extractVars, captionVars, remoteVars, polls,
                   finallyExc, batchVars, reportVars, parVars, profileVars, jobVars>>

\* The loop without its sleep: the task keeps control and retrieves at once.
PollBusy(d) ==
    /\ running = d
    /\ pc[d] = "loop"
    /\ run[d].status \notin Terminal
    /\ polls[d] < limits.maxPolls
    /\ polls' = [polls EXCEPT ![d] = @ + 1]
    /\ \E r \in limits.runs :
         /\ (r.status \notin Terminal) => (polls[d] + 1 < limits.maxPolls)
         /\ run' = [run EXCEPT ![d] = r]
    /\ UNCHANGED <<agentVars, running, pc, extractVars, captionVars, remoteVars, failedAt,
                   pending, finallyExc, batchVars, reportVars, parVars, profileVars, jobVars>>

\* The while test holds: await asyncio.sleep(1) (agent.py:284-285)
PollSleep(d) ==
    /\ running = d
    /\ pc[d] = "loop"
    /\ run[d].status \notin Terminal
    /\ pc' = [pc EXCEPT ![d] = "sleeping"]
    /\ running' = 0
    /\ UNCHANGED <<agentVars, extractVars, captionVars, remoteVars, sessionVars, batchVars, reportVars, parVars, profileVars, jobVars>>

\* The sleep ends: client.beta.threads.runs.retrieve (agent.py:286)
PollRetrieve(d) ==
    /\ running = 0
    /\ pc[d] = "sleeping"
    /\ running' = d
    /\ polls' = [polls EXCEPT ![d] = @ + 1]
    /\ \/ /\ \E r \in limits.runs :
               /\ (r.status \notin Terminal) => (polls[d] + 1 < limits.maxPolls)
               /\ run' = [run EXCEPT ![d] = r]
          /\ pc' = [pc EXCEPT ![d] = "loop"]
          /\ UNCHANGED <<failedAt, pending>>
       \/ Fail(d, "poll") /\ UNCHANGED run
    /\ UNCHANGED <<agentVars, extractVars, captionVars, remoteVars, finallyExc, batchVars, reportVars, parVars, profileVars, jobVars>>

\* The loop is left with a status other than completed (agent.py:288-290)
RunNotCompleted(d) ==
    /\ running = d
    /\ pc[d] = "loop"
    /\ run[d].status \in Terminal \ {"completed"}
    /\ pending' = [pending EXCEPT ![d] = Return(StatusArtifact(run[d]))]
    /\ pc' = [pc EXCEPT ![d] = "finally_thread"]
    /\ UNCHANGED <<agentVars, running, extractVars, captionVars, remoteVars, run, polls,
                   failedAt, finallyExc, batchVars, reportVars, parVars, profileVars, jobVars>>

\* The run completed: messages.list and the success artifact (agent.py:293-308)
RetrieveNarrative(d) ==
    /\ running = d
    /\ pc[d] = "loop"
    /\ run[d].status = "completed"
    /\ \E o \in {"text", "no_assistant_text", "raise"} :
         IF o = "raise"
         THEN Fail(d, "list")
         ELSE /\ pending' = [pending EXCEPT ![d] =
                     Return(SuccessArtifact(d, SummaryText(o), images[d]))]
              /\ pc' = [pc EXCEPT ![d] = "finally_thread"]
              /\ UNCHANGED failedAt
    /\ UNCHANGED <<agentVars, running, extractVars, captionVars, remoteVars, run, polls,
                   finallyExc, batchVars, reportVars, parVars, profileVars, jobVars>>

\* task.cancel() on the suspended task of document d: CancelledError is raised
\* at the await it is suspended in (agent.py:241 or 285).  CancelledError is
\* not an Exception, so the except clause (agent.py:310) lets it pass and the
\* finally block runs with the error pending; a gather that is cancelled
\* cancels the caption tasks it waits for.
Cancel(d) ==
    /\ running = 0
    /\ pc[d] \in {"captioning", "sleeping"}
    /\ cancelled' = [cancelled EXCEPT ![d] = pc[d]]
    /\ pending' = [pending EXCEPT ![d] = Raise("CancelledError")]
    /\ pc' = [pc EXCEPT ![d] = "finally_thread"]
    /\ running' = d
    /\ UNCHANGED <<agentVars, extractVars, captionVars, remoteVars, run, polls, failedAt,
                   finallyExc, result, doneOrder, batch, reportVars, parVars, profileVars, jobVars>>

\* finally: "if thread:" and client.beta.threads.delete (agent.py:316-321)
FinallyThread(d) ==
    /\ running = d
    /\ pc[d] = "finally_thread"
    /\ \E delOk \in limits.delOutcomes :
         LET c == CleanupStep(thread[d], threads[d], delOk)
         IN  /\ (~delOk) => (thread[d] = "set")
             /\ delThreadCalls' = [delThreadCalls EXCEPT ![d] = @ + c.calls]
             /\ threads' = [threads EXCEPT ![d] = c.remote]
             /\ finallyExc' = [finallyExc EXCEPT ![d] = c.exc]
             /\ pc' = [pc EXCEPT ![d] = IF c.exc # "none" THEN "finish" ELSE "finally_file"]
    /\ UNCHANGED <<agentVars, running, extractVars, captionVars, file_id, thread, files,
                   delFileCalls, run, polls, failedAt, pending, batchVars, reportVars, parVars, profileVars, jobVars>>

\* finally: "if file_id:" and client.files.delete (agent.py:323-328)
FinallyFile(d) ==
    /\ running = d
    /\ pc[d] = "finally_file"
    /\ \E delOk \in limits.delOutcomes :
         LET c == CleanupStep(file_id[d], files[d], delOk)
         IN  /\ (~delOk) => (file_id[d] = "set")
             /\ delFileCalls' = [delFileCalls EXCEPT ![d] = @ + c.calls]
             /\ files' = [files EXCEPT ![d] = c.remote]
             /\ pc' = [pc EXCEPT ![d] = "finish"]
             /\ finallyExc' = [finallyExc EXCEPT ![d] = c.exc]
    /\ UNCHANGED <<agentVars, running, extractVars, captionVars, file_id, thread, threads,
                   delThreadCalls, run, polls, failedAt, pending, batchVars, reportVars, parVars, profileVars, jobVars>>

\* The coroutine ends: the exception raised in finally propagates and replaces
\* the pending return, or else the artifact is returned.  Its local run is gone.
Finish(d) ==
    /\ running = d
    /\ pc[d] = "finish"
    /\ result' = [result EXCEPT ![d] =
            SetKey(IF finallyExc[d] # "none" THEN Raise(finallyExc[d]) ELSE pending[d],
                   "doc", d)]
    /\ doneOrder' = Append(doneOrder, d)
    /\ pc' = [pc EXCEPT ![d] = "done"]
    /\ running' = 0
    /\ run' = [run EXCEPT ![d] = NoRun]
    /\ polls' = [polls EXCEPT ![d] = 0]
    /\ UNCHANGED <<agentVars, extractVars, captionVars, remoteVars, failedAt, pending,
                   finallyExc, batch, cancelled, reportVars, parVars, profileVars, jobVars>>

\* ------------------------------------------------------------------- batch
\* asyncio.gather(*tasks, return_exceptions=True) (agent.py:345): one entry per
\* task in the order of the tasks, an exception standing for a task that raised.
GatherBatchByArrival(results, order) == [i \in 1..Len(order) |-> results[order[i]]]

GatherBatch(results, order) == [i \in 1..Len(order) |-> results[i]]

\* process_pdf_batch returns.
BatchReturn ==
    /\ running = 0
    /\ batch = <<>>
    /\ \A d \in limits.docs : pc[d] = "done"
    /\ batch' = GatherBatch(result, doneOrder)
    /\ UNCHANGED <<agentVars, running, pc, extractVars, captionVars, remoteVars,
                   sessionVars, result, doneOrder, cancelled, reportVars, parVars, profileVars, jobVars>>

\* ---------------------------------------------------- parallel extraction
\* extract_images_from_pdf run by threads in true parallel, each on its own
\* agent (its own sqlite3 connection to the one database file): the SELECT
\* (agent.py:145-146) and the INSERT with its commit (agent.py:150-151) are
\* separate statements, with no lock and no transaction around the pair, so
\* another thread's statements can come between them.

\* INSERT INTO image_hashes (hash) VALUES (?) with no key on the column.
InsertRowNoKey(table, h) == [table |-> Append(table, h), error |-> FALSE]

\* INSERT INTO image_hashes (hash) VALUES (?): hash is the PRIMARY KEY
\* (agent.py:51), a second row of the same hash is refused with an
\* IntegrityError.
InsertRow(table, h) ==
    IF h \in Range(table) THEN [table |-> table, error |-> TRUE]
    ELSE [table |-> Append(table, h), error |-> FALSE]

ParStart(d) ==
    /\ d \in limits.docs
    /\ pc[d] = "new"
    /\ pc' = [pc EXCEPT ![d] = "par_select"]
    /\ UNCHANGED <<agentVars, running, extractVars, captionVars, remoteVars, sessionVars,
                   batchVars, reportVars, parVars, profileVars, jobVars>>

\* The next embedded image is decoded, passes the size filter and is looked
\* up: found, it is skipped (agent.py:147-149); not found, the thread goes on
\* to the INSERT.
ParSelect(d) ==
    /\ pc[d] = "par_select"
    /\ conn[agent[d]]
    /\ Len(log) + Cardinality({e \in Docs : inhand[e] # Nothing}) < limits.maxImgs
    /\ \E img \in limits.pool :
         /\ img.decode = "ok" /\ ~SkipSmall(img)
         /\ img_index' = [img_index EXCEPT ![d] = @ + 1]
         /\ IF Sha256(img.bytes) \in Range(image_hashes)
            THEN /\ log' = Append(log, [doc |-> d, page |-> page_num[d],
                                        index |-> img_index[d] + 1, img |-> img,
                                        conn |-> TRUE, dbo |-> "ok", saveOk |-> TRUE,
                                        verdict |-> "duplicate"])
                 /\ UNCHANGED <<pc, inhand>>
            ELSE /\ inhand' = [inhand EXCEPT ![d] = img]
                 /\ pc' = [pc EXCEPT ![d] = "par_insert"]
                 /\ UNCHANGED log
    /\ UNCHANGED <<agentVars, running, page_num, images, image_hashes, captionVars,
                   remoteVars, sessionVars, batchVars, reportVars,
                   profileVars, jobVars>>

\* The INSERT and commit; an sqlite3.Error is logged and the image is kept
\* all the same (agent.py:152-155), then saved and appended (agent.py:160-185).
ParInsert(d) ==
    /\ pc[d] = "par_insert"
    /\ LET img == inhand[d]
           r == InsertRow(image_hashes, Sha256(img.bytes))
       IN  /\ image_hashes' = r.table
           /\ images' = [images EXCEPT ![d] =
                  Append(@, ImageRecord(img, page_num[d], img_index[d], TRUE))]
           /\ log' = Append(log, [doc |-> d, page |-> page_num[d], index |-> img_index[d],
                                  img |-> img, conn |-> TRUE,
                                  dbo |-> IF r.error THEN "insert_error" ELSE "ok",
                                  saveOk |-> TRUE, verdict |-> "accepted"])
    /\ inhand' = [inhand EXCEPT ![d] = Nothing]
    /\ pc' = [pc EXCEPT ![d] = "par_select"]
    /\ UNCHANGED <<agentVars, running, page_num, img_index, captionVars, remoteVars,
                   sessionVars, batchVars, reportVars, profileVars, jobVars>>

\* The loops end and the list is returned.
ParReturn(d) ==
    /\ pc[d] = "par_select"
    /\ pc' = [pc EXCEPT ![d] = "returned"]
    /\ img_index' = [img_index EXCEPT ![d] = 0]
    /\ UNCHANGED <<agentVars, running, page_num, images, log, image_hashes, captionVars,
                   remoteVars, sessionVars, batchVars, reportVars, parVars, profileVars, jobVars>>

\* ------------------------------------------------------------------ report
\* src/report_generator/generator.py.  An item of the summaries list is
\* {"type": ..., "summary": artifact}; the attachment artifacts are the ones
\* process_pdf_document returns (main.py:265-270), the email artifact comes
\* from the email summarizer, and the report endpoint (main.py:212) hands on
\* whatever list it was posted, so an artifact may lack its metadata.
EmailArtifacts ==
    {[success |-> TRUE, summary |-> "email summary"],
     [success |-> FALSE, error |-> <<"str", "email">>]}

AttachmentArtifacts ==
    {SuccessArtifact(d, SummaryText("text"), <<>>) : d \in Docs}
    \cup {ExcArtifact(d, "upload") : d \in Docs}
    \cup {StatusArtifact([status |-> "failed", last_error |-> "server_error"])}
    \cup {[success |-> TRUE, summary |-> SummaryText("text")]}

SummaryItems ==
    {[type |-> "email", summary |-> a] : a \in EmailArtifacts}
    \cup {[type |-> "attachment", summary |-> a] : a \in AttachmentArtifacts}

\* generator.py:36-37: the last successful email item wins.
RECURSIVE EmailSummary(_, _)
EmailSummary(items, email_summary) ==
    IF items = <<>> THEN email_summary
    ELSE LET item == Head(items)
         IN  EmailSummary(Tail(items),
                          IF item.type = "email" /\ item.summary.success
                          THEN item.summary.summary ELSE email_summary)

\* generator.py:38-42
AttachmentEntry(item) ==
    [filename |-> item.summary.metadata.filename, summary |-> item.summary.summary]

\* generator.py:33-42, the loop as far as attachment_summaries goes.
RECURSIVE AttachmentEntriesPrepend(_)
AttachmentEntriesPrepend(items) ==
    IF items = <<>> THEN <<>>
    ELSE LET item == Head(items)
         IN  IF item.type = "attachment" /\ item.summary.success
             THEN AttachmentEntriesPrepend(Tail(items)) \o <<AttachmentEntry(item)>>
             ELSE AttachmentEntriesPrepend(Tail(items))

RECURSIVE AttachmentEntries(_)
AttachmentEntries(items) ==
    IF items = <<>> THEN <<>>
    ELSE LET item == Head(items)
         IN  IF item.type = "attachment" /\ item.summary.success
             THEN <<AttachmentEntry(item)>> \o AttachmentEntries(Tail(items))
             ELSE AttachmentEntries(Tail(items))

\* item["summary"]["metadata"] of a successful attachment raises KeyError when
\* the artifact has no metadata.
RaisesKeyError(items) ==
    \E i \in 1..Len(items) :
        /\ items[i].type = "attachment"
        /\ items[i].summary.success
        /\ "metadata" \notin DOMAIN items[i].summary

\* generate_report (generator.py:14-73).  The report id, the email metadata and
\* the timestamp do not depend on the summaries and are left out.
GenerateReport(items) ==
    IF RaisesKeyError(items)
    THEN [success |-> FALSE, error |-> <<"str", "KeyError">>]
    ELSE [success |-> TRUE,
          report |-> [email_summary |-> EmailSummary(items, "Email content could not be summarized."),
                      attachment_summaries |-> AttachmentEntries(items)]]

\* The caller puts one more item on the list (main.py:266-274).
AddSummary ==
    /\ report = Nothing
    /\ Len(summaries) < MaxSummaries
    /\ \E item \in SummaryItems : summaries' = Append(summaries, item)
    /\ UNCHANGED <<agentVars, running, pc, extractVars, captionVars, remoteVars,
                   sessionVars, batchVars, report, parVars, profileVars, jobVars>>

\* generator.generate_report(email_data, summaries) (main.py:212, 275).
GenerateReportCall ==
    /\ report = Nothing
    /\ report' = GenerateReport(summaries)
    /\ UNCHANGED <<agentVars, running, pc, extractVars, captionVars, remoteVars,
                   sessionVars, batchVars, summaries, parVars, profileVars, jobVars>>

\* --------------------------------------------------------- background jobs
DiscardKeeps(tasks, t) == tasks

\* background_tasks.discard(task), the done callback (agent.py:363)
Discard(tasks, t) == tasks \ {t}

\* submit_pdf_job(pdf_path) (agent.py:349-364): a new agent, a task for
\* process_pdf_document, the task added to background_tasks and given its done
\* callback. Nothing in it awaits, so the task has not run when it returns.
SubmitPdfJob(d) ==
    /\ running = 0
    /\ d \in limits.docs
    /\ callbacks[d] = "none"
    /\ pc[d] = "new"
    /\ background_tasks' = background_tasks \cup {d}
    /\ callbacks' = [callbacks EXCEPT ![d] = "registered"]
    /\ UNCHANGED <<agentVars, running, pc, extractVars, captionVars, remoteVars,
                   sessionVars, batchVars, reportVars, parVars, profileVars>>

\* The event loop gives the task created at agent.py:361 its first step.
StartJob(d) ==
    /\ callbacks[d] = "registered"
    /\ StartExtract(d)

\* task.cancel() on a job that has not had its first step: CancelledError is
\* thrown into the unstarted coroutine, whose body (agent.py:236-328) never
\* runs, and the task ends cancelled.
CancelUnstarted(d) ==
    /\ running = 0
    /\ callbacks[d] = "registered"
    /\ pc[d] = "new"
    /\ cancelled' = [cancelled EXCEPT ![d] = "unstarted"]
    /\ result' = [result EXCEPT ![d] = SetKey(Raise("CancelledError"), "doc", d)]
    /\ doneOrder' = Append(doneOrder, d)
    /\ pc' = [pc EXCEPT ![d] = "done"]
    /\ UNCHANGED <<agentVars, running, extractVars, captionVars, remoteVars,
                   sessionVars, batch, reportVars, parVars, profileVars, jobVars>>

\* The event loop runs the done callback of a finished task (agent.py:363).
DoneCallback(d) ==
    /\ running = 0
    /\ callbacks[d] = "registered"
    /\ pc[d] = "done"
    /\ background_tasks' = Discard(background_tasks, d)
    /\ callbacks' = [callbacks EXCEPT ![d] = "run"]
    /\ UNCHANGED <<agentVars, running, pc, extractVars, captionVars, remoteVars,
                   sessionVars, batchVars, reportVars, parVars, profileVars>>

\* ------------------------------------------------------ assistant profiles
\* The keys of the profiles dictionary (assistant_profiles.py:6-26).
Profiles == {"pdf_summarizer", "legal_analyzer", "research_helper"}

\* The names a caller passes: the registered ones and "default", the default
\* of the parameter (agent.py:69), which is not a key of the dictionary.
ProfileNames == Profiles \cup {"default"}

\* self.model (agent.py:26)
Model == "gpt-4o"

ProfileTitle(profile) ==
    CASE profile = "pdf_summarizer" -> "PDF Summarizer Assistant"
      [] profile = "legal_analyzer" -> "Legal Analyzer Assistant"
      [] profile = "research_helper" -> "Research Helper Assistant"

\* get_assistant_profile(profile, model) (assistant_profiles.py:1-31)
GetAssistantProfile(profile, model) ==
    IF profile \notin Profiles
    THEN Raise("ValueError")
    ELSE Return([name |-> ProfileTitle(profile), model |-> model,
                 tools |-> <<"file_search">>])

\* version_key (agent.py:72-75)
VersionKey(cfg) == [model |-> cfg.model, tools |-> cfg.tools]

\* What a cache file can hold: nothing (no such file), the JSON written at
\* agent.py:101-102, or text json.load cannot use.
NoFile == [kind |-> "absent"]
CacheJson(id, version) == [kind |-> "json", id |-> id, version |-> version]
Corrupt == [kind |-> "corrupt"]

\* The outcomes of the calls get_or_create_assistant makes: assistants.retrieve
\* (agent.py:88), assistants.create (95-100), open(cache_file, "w") (101).
CallOutcomes == [retrieve : BOOLEAN, create : BOOLEAN, write : BOOLEAN]

\* A call that leaves the instance, the cfiles and the nremote service as they were.
Untouched(res, selfAssistant, cfiles, nremote) ==
    [result |-> res, self_assistant |-> selfAssistant, cache_file |-> cfiles,
     remote_assistants |-> nremote, retrieved |-> 0, created |-> 0, wrote |-> FALSE]

\* agent.py:81-107: use the cached id when the file's version matches and the
\* retrieve succeeds; otherwise create an assistant and write the cache file.
FetchAssistant(profile, cfg, cfiles, nremote, env) ==
    LET f == cfiles[profile]
        usable == f.kind = "json" /\ f.version = VersionKey(cfg) /\ f.id \in 1..nremote
        id == nremote + 1
    IN  IF usable /\ env.retrieve
        THEN [Untouched(Return(f.id), f.id, cfiles, nremote) EXCEPT !.retrieved = 1]
        ELSE IF ~env.create
        THEN Untouched(Raise("APIError"), 0, cfiles, nremote)
        ELSE IF ~env.write
        THEN [Untouched(Raise("OSError"), 0, cfiles, id) EXCEPT !.created = 1]
        ELSE [result |-> Return(id), self_assistant |-> id,
              cache_file |-> [cfiles EXCEPT ![profile] = CacheJson(id, VersionKey(cfg))],
              remote_assistants |-> id, retrieved |-> 0, created |-> 1, wrote |-> TRUE]

GetOrCreateAssistantProfileCacheFirst(profile, model, selfAssistant, cfiles, nremote, env) ==
    IF selfAssistant # 0
    THEN Untouched(Return(selfAssistant), selfAssistant, cfiles, nremote)
    ELSE LET cfg == GetAssistantProfile(profile, model)
         IN  IF cfg.kind = "raise"
             THEN Untouched(cfg, selfAssistant, cfiles, nremote)
             ELSE FetchAssistant(profile, cfg.value, cfiles, nremote, env)

GetOrCreateAssistantProfileNoMemo(profile, model, selfAssistant, cfiles, nremote, env) ==
    LET cfg == GetAssistantProfile(profile, model)
    IN  IF cfg.kind = "raise"
        THEN Untouched(cfg, selfAssistant, cfiles, nremote)
        ELSE FetchAssistant(profile, cfg.value, cfiles, nremote, env)

\* get_or_create_assistant(profile) (agent.py:69-107) on an instance whose
\* self._assistant is selfAssistant (0 for None).
GetOrCreateAssistantProfile(profile, model, selfAssistant, cfiles, nremote, env) ==
    LET cfg == GetAssistantProfile(profile, model)
    IN  IF cfg.kind = "raise"
        THEN Untouched(cfg, selfAssistant, cfiles, nremote)
        ELSE IF selfAssistant # 0
        THEN Untouched(Return(selfAssistant), selfAssistant, cfiles, nremote)
        ELSE FetchAssistant(profile, cfg.value, cfiles, nremote, env)

NoCalls == [calls |-> 0, raised |-> FALSE, handles |-> {}, fetched |-> 0, profiles |-> {}]

\* One call of get_or_create_assistant on the instance, with any profile name.
CallGetOrCreateAssistant ==
    /\ tally.calls < MaxCalls
    /\ \E profile \in ProfileNames, env \in CallOutcomes :
         LET g == GetOrCreateAssistantProfile(profile, Model, self_assistant, cache_file,
                                              remote_assistants, env)
             ok == g.result.kind = "return"
         IN  /\ self_assistant' = g.self_assistant
             /\ cache_file' = g.cache_file
             /\ remote_assistants' = g.remote_assistants
             /\ lastCall' = [kind |-> "call", profile |-> profile, result |-> g.result,
                             cached |-> self_assistant # 0, retrieved |-> g.retrieved,
                             created |-> g.created, wrote |-> g.wrote]
             /\ tally' = [calls |-> tally.calls + 1,
                          raised |-> tally.raised \/ ~ok,
                          handles |-> tally.handles \cup
                                      (IF ok THEN {g.result.value} ELSE {}),
                          fetched |-> tally.fetched + g.retrieved + g.created,
                          profiles |-> tally.profiles \cup (IF ok THEN {profile} ELSE {})]
    /\ UNCHANGED <<agentVars, running, pc, extractVars, captionVars, remoteVars,
                   sessionVars, batchVars, reportVars, parVars, jobVars>>

InitCore ==
    /\ image_hashes = <<>>
    /\ assistant = [a \in Docs |-> FALSE]
    /\ running = 0
    /\ pc = [d \in Docs |-> "new"]
    /\ page_num = [d \in Docs |-> 1]
    /\ img_index = [d \in Docs |-> 0]
    /\ images = [d \in Docs |-> <<>>]
    /\ log = <<>>
    /\ extracted = [d \in Docs |-> <<>>]
    /\ capcalls = [d \in Docs |-> <<>>]
    /\ capOrder = [d \in Docs |-> <<>>]
    /\ image_captions_text = [d \in Docs |-> Nothing]
    /\ file_id = [d \in Docs |-> "unbound"]
    /\ thread = [d \in Docs |-> "unbound"]
    /\ files = [d \in Docs |-> "none"]
    /\ threads = [d \in Docs |-> "none"]
    /\ delThreadCalls = [d \in Docs |-> 0]
    /\ delFileCalls = [d \in Docs |-> 0]
    /\ run = [d \in Docs |-> NoRun]
    /\ polls = [d \in Docs |-> 0]
    /\ failedAt = [d \in Docs |-> "none"]
    /\ pending = [d \in Docs |-> Nothing]
    /\ finallyExc = [d \in Docs |-> "none"]
    /\ result = [d \in Docs |-> Nothing]
    /\ doneOrder = <<>>
    /\ batch = <<>>
    /\ cancelled = [d \in Docs |-> "no"]
    /\ summaries = <<>>
    /\ report = Nothing
    /\ inhand = [d \in Docs |-> Nothing]
    /\ self_assistant = 0
    /\ remote_assistants = 1
    /\ lastCall = Nothing
    /\ tally = NoCalls
    /\ background_tasks = {}
    /\ callbacks = [d \in Docs |-> "none"]

InitCommon ==
    /\ InitCore
    /\ cache_file = [p \in ProfileNames |-> NoFile]

\* The input sets of a specification.
Limits(docs, pool, maxImgs, maxPages) ==
    [docs |-> docs, pool |-> pool, maxImgs |-> maxImgs, maxPages |-> maxPages,
     dbOutcomes |-> DbOutcomes, saveOutcomes |-> BOOLEAN,
     responses |-> CaptionResponses, calls |-> BOOLEAN, runs |-> Runs,
     delOutcomes |-> BOOLEAN, maxPolls |-> MaxPolls, ordered |-> FALSE]

\* One agent per document (as submit_pdf_job constructs them, agent.py:360).
AgentPerDoc ==
    /\ agent = [d \in Docs |-> d]
    /\ \E o \in [Docs -> DbInitOutcomes] :
         /\ conn = [a \in Docs |-> InitImageHashDb(o[a]).conn]
         /\ ctorRaised = (\E a \in Docs : InitImageHashDb(o[a]).raised)

\* One agent for all the documents (process_pdf_batch, agent.py:340).
OneAgent ==
    /\ agent = [d \in Docs |-> 1]
    /\ \E o \in DbInitOutcomes :
         /\ conn = [a \in Docs |-> a = 1 /\ InitImageHashDb(o).conn]
         /\ ctorRaised = InitImageHashDb(o).raised

\* Direct calls of extract_images_from_pdf.
InitExtract ==
    /\ limits = [Limits(Docs, ExtractPool, MaxImgs, 1) EXCEPT !.saveOutcomes = {TRUE},
                                                              !.ordered = TRUE]
    /\ AgentPerDoc
    /\ InitCommon

InitFilter ==
    /\ limits = Limits({1}, AllShapes, FilterImgs, MaxPages)
    /\ OneAgent
    /\ InitCommon

NextExtract ==
    \E d \in Docs :
        \/ StartExtract(d)
        \/ ExtractImage(d)
        \/ ExtractDocError(d)
        \/ ExtractEnd(d)
        \/ ExtractReturn(d)

NextFilter ==
    \E d \in Docs :
        \/ StartExtract(d)
        \/ ExtractImage(d)
        \/ NextPage(d)
        \/ ExtractDocError(d)
        \/ ExtractEnd(d)
        \/ ExtractReturn(d)

SpecExtract == InitExtract /\ [][NextExtract]_vars

SpecFilter == InitFilter /\ [][NextFilter]_vars

\* One document of several pages in which some embedded images cannot be
\* decoded (extract_image raises, or returns nothing).
InitSkip ==
    /\ limits = [Limits({1}, Undecodable({"raise", "empty"}) \cup BigImages, SkipImgs, MaxPages)
                    EXCEPT !.dbOutcomes = {"ok"}, !.saveOutcomes = {TRUE}]
    /\ OneAgent
    /\ InitCommon

SpecSkip == InitSkip /\ [][NextFilter]_vars

\* One document: extraction, the caption fan-out, and a session whose upload is
\* rejected.
InitCaption ==
    /\ limits = [Limits({1}, BigImages, CaptionImgs, 1) EXCEPT
                    !.dbOutcomes = {"ok"}, !.saveOutcomes = {TRUE}, !.calls = {FALSE}]
    /\ OneAgent
    /\ InitCommon

\* One document through process_pdf_document.
InitSession ==
    /\ limits = Limits({1}, SessionPool, SessionImgs, 1)
    /\ OneAgent
    /\ InitCommon

\* process_pdf_batch over NumDocs documents; the event loop first runs the tasks
\* in the order gather was given them.
Init ==
    /\ limits = [Limits(Docs, BatchPool, BatchImgs, 1) EXCEPT
                    !.dbOutcomes = {"ok"}, !.saveOutcomes = {TRUE},
                    !.responses = {[kind |-> "text", text |-> <<"A">>]},
                    !.runs = {r \in Runs : r.status \in {"in_progress", "completed"}
                                            \/ r.last_error # "None"},
                    !.delOutcomes = {TRUE}, !.maxPolls = BatchPolls, !.ordered = TRUE]
    /\ OneAgent
    /\ InitCommon

NextCaption ==
    \E d \in Docs :
        \/ StartExtract(d)
        \/ ExtractImage(d)
        \/ ExtractDocError(d)
        \/ ExtractEnd(d)
        \/ BeginCaptions(d)
        \/ \E i \in DOMAIN capcalls[d] : CaptionImage(d, i)
        \/ EndCaptions(d)
        \/ Upload(d)
        \/ FinallyThread(d)
        \/ Finish(d)

Next ==
    \/ \E d \in Docs :
        \/ StartExtract(d)
        \/ ExtractImage(d)
        \/ ExtractDocError(d)
        \/ ExtractEnd(d)
        \/ BeginCaptions(d)
        \/ \E i \in DOMAIN capcalls[d] : CaptionImage(d, i)
        \/ EndCaptions(d)
        \/ Upload(d)
        \/ ResolveAssistant(d)
        \/ CreateThread(d)
        \/ SendMessage(d)
        \/ CreateRun(d)
        \/ PollSleep(d)
        \/ PollRetrieve(d)
        \/ RunNotCompleted(d)
        \/ RetrieveNarrative(d)
        \/ FinallyThread(d)
        \/ FinallyFile(d)
        \/ Finish(d)
    \/ BatchReturn

Spec == Init /\ [][Next]_vars

SpecSession == InitSession /\ [][Next]_vars

SpecCaption == InitCaption /\ [][NextCaption]_vars

\* generate_report over every list of at most MaxSummaries items.
InitReport ==
    /\ InitCommon
    /\ OneAgent
    /\ limits = Limits({}, {}, 0, 1)

\* One session under the event loop's scheduling: a task that is ready to run
\* is run, a sleep ends, and every remote call returns or raises.  The run
\* reports a terminal status after limits.maxPolls retrievals at the latest.
SpecLive == InitSession /\ [][Next]_vars /\ WF_vars(Next)

\* Sibling tasks, of one batch (one agent) or of several submit_pdf_job calls
\* (an agent each), over documents that hold the same image; a task that waits
\* for its captions leaves the event loop to its siblings.
InitSiblings ==
    /\ limits = [Limits(Docs, BatchPool, SiblingImgs, 1) EXCEPT
                    !.saveOutcomes = {TRUE}, !.calls = {FALSE},
                    !.responses = {[kind |-> "text", text |-> <<"A">>]}]
    /\ (OneAgent \/ AgentPerDoc)
    /\ InitCommon

SpecSiblings == InitSiblings /\ [][NextCaption]_vars

\* Extractions in true parallel, an agent each, over the same images.
InitParallel ==
    /\ limits = Limits(Docs, BigImages, ParImgs, 1)
    /\ agent = [d \in Docs |-> d]
    /\ conn = [a \in Docs |-> InitImageHashDb("ok").conn]
    /\ ctorRaised = InitImageHashDb("ok").raised
    /\ InitCommon

NextParallel ==
    \E d \in Docs :
        \/ ParStart(d)
        \/ ParSelect(d)
        \/ ParInsert(d)
        \/ ParReturn(d)

SpecParallel == InitParallel /\ [][NextParallel]_vars

\* One session as far as its message: a document with several images, some of
\* them icons or repeats, and caption requests that may fail.
InitMessage ==
    /\ limits = [Limits({1}, BigImages \cup {x \in SessionPool : SkipSmall(x)}, MessageImgs, 1)
                    EXCEPT !.dbOutcomes = {"ok"}, !.saveOutcomes = {TRUE}]
    /\ OneAgent
    /\ InitCommon

NextMessage ==
    \E d \in Docs :
        \/ StartExtract(d)
        \/ ExtractImage(d)
        \/ ExtractDocError(d)
        \/ ExtractEnd(d)
        \/ BeginCaptions(d)
        \/ \E i \in DOMAIN capcalls[d] : CaptionImage(d, i)
        \/ EndCaptions(d)
        \/ Upload(d)
        \/ ResolveAssistant(d)
        \/ CreateThread(d)
        \/ SendMessage(d)
        \/ FinallyThread(d)
        \/ FinallyFile(d)
        \/ Finish(d)

SpecMessage == InitMessage /\ [][NextMessage]_vars

\* One session whose task may be cancelled while it is suspended.
NextCancel == Next \/ \E d \in Docs : Cancel(d)

SpecCancel == InitSession /\ [][NextCancel]_vars

NextReport == AddSummary \/ GenerateReportCall

SpecReport == InitReport /\ [][NextReport]_vars

\* ================================================================== claims
Finished(d) == pc[d] = "done"

\* The gather of the caption tasks has returned for document d.
Captioned(d) == pc[d] \in {"upload", "finally_thread", "finish", "done"}

\* Log entry e put a record into its document's list.
Emitted(e) == \E i \in 1..Len(images[e.doc]) :
                 images[e.doc][i].page = e.page /\ images[e.doc][i].index = e.index

\* Log entry e was decoded and is larger than 100 in width or in height.
AboveThreshold(e) ==
    /\ e.img.decode = "ok"
    /\ \/ (e.img.width # Missing /\ e.img.width > 100)
       \/ (e.img.height # Missing /\ e.img.height > 100)

Rows(h) == Cardinality({k \in 1..Len(image_hashes) : image_hashes[k] = h})

\* C1: whenever process_pdf_document has ended, a conversation that was created
\* has had threads.delete called for it and an uploaded document that was
\* created has had files.delete called for it.
C1_TeardownIssuedOnEveryExit ==
    \A d \in Docs :
        Finished(d) =>
            /\ (threads[d] # "none" => delThreadCalls[d] >= 1)
            /\ (files[d] # "none" => delFileCalls[d] >= 1)

\* C2: process_pdf_document never ends by raising; when a stage failed it
\* returns an artifact with success = false and an error.
C2_FailureAbsorbedIntoArtifact ==
    \A d \in Docs :
        Finished(d) =>
            /\ result[d].kind = "return"
            /\ (failedAt[d] # "none" =>
                    /\ result[d].value.success = FALSE
                    /\ "error" \in DOMAIN result[d].value)

\* C3: the number of threads.delete calls of a session is never more than 1, and
\* when the session has ended it is 1 if a conversation was created and 0 if
\* none was.
C3_ThreadDeleteCalledExactlyOnce ==
    \A d \in Docs :
        /\ delThreadCalls[d] <= 1
        /\ Finished(d) =>
              delThreadCalls[d] = (IF threads[d] # "none" THEN 1 ELSE 0)

\* C3 witness: message send failed after the conversation was created, and the
\* session ended with one deletion call.
C3_Witness ==
    \E d \in Docs :
        Finished(d) /\ failedAt[d] = "message" /\ threads[d] # "none"
                    /\ delThreadCalls[d] = 1

\* C4: when both a conversation and an uploaded document exist, both deletions
\* are called once whatever the other one does, and the coroutine returns the
\* artifact the body decided on.
C4_TeardownStepsIndependent ==
    \A d \in Docs :
        (Finished(d) /\ threads[d] # "none" /\ files[d] # "none") =>
            /\ delThreadCalls[d] = 1
            /\ delFileCalls[d] = 1
            /\ pending[d].kind = "return"
            /\ result[d] = SetKey(pending[d], "doc", d)

\* C4 witness: the conversation deletion failed (the conversation is still
\* there after its one call) and the document was deleted all the same.
C4_Witness ==
    \E d \in Docs :
        /\ Finished(d)
        /\ threads[d] = "exists" /\ delThreadCalls[d] = 1
        /\ files[d] = "deleted" /\ delFileCalls[d] = 1

\* C5: in the list process_pdf_batch returns, the entry of a document whose
\* session threw is a failure artifact, not an exception object.
C5_BatchEntryIsFailureArtifact ==
    batch # <<>> =>
        \A d \in Docs :
            failedAt[d] # "none" =>
                /\ batch[d].kind = "return"
                /\ batch[d].value.success = FALSE

\* C6: process_pdf_batch returns one entry per document and entry i is the
\* outcome of document i.
C6_BatchResultsByPosition ==
    batch # <<>> =>
        /\ Len(batch) = NumDocs
        /\ \A i \in 1..NumDocs : batch[i].doc = i /\ batch[i] = result[i]

\* C6 witness: document 1 waited for a caption and finished after a later
\* document, and some document failed.
C6_Witness ==
    /\ batch # <<>>
    /\ extracted[1] # <<>>
    /\ doneOrder[1] # 1
    /\ \E d \in Docs : failedAt[d] # "none"

\* C7: when every extraction so far had the store and no database call failed,
\* an image above the size threshold is in an output list exactly when no
\* earlier image above the threshold had the same bytes, and the table holds
\* exactly one row for its fingerprint.
C7_DedupKeepsFirstOnly ==
    (\A k \in 1..Len(log) : log[k].conn /\ log[k].dbo = "ok") =>
        \A k \in 1..Len(log) :
            AboveThreshold(log[k]) =>
                /\ Emitted(log[k]) <=>
                     ~\E j \in 1..(k - 1) :
                          AboveThreshold(log[j]) /\ log[j].img.bytes = log[k].img.bytes
                /\ Rows(Sha256(log[k].img.bytes)) = 1

\* C7 witness: the same bytes in two documents, the second occurrence left out.
C7_Witness ==
    /\ \A k \in 1..Len(log) : log[k].conn /\ log[k].dbo = "ok"
    /\ \E j, k \in 1..Len(log) :
         /\ j < k
         /\ log[j].doc # log[k].doc
         /\ AboveThreshold(log[j]) /\ AboveThreshold(log[k])
         /\ log[j].img.bytes = log[k].img.bytes
         /\ Emitted(log[j]) /\ ~Emitted(log[k])

\* C8: a decoded image is rejected by the size filter exactly when its width is
\* at most 100 and its height is at most 100, a missing dimension counting as 0;
\* a rejected image is not in the output.
C8_SizeFilterBoundary ==
    \A k \in 1..Len(log) :
        LET e == log[k]
            w == IF e.img.width = Missing THEN 0 ELSE e.img.width
            h == IF e.img.height = Missing THEN 0 ELSE e.img.height
        IN  e.img.decode = "ok" =>
                /\ (e.verdict = "small") <=> (w <= 100 /\ h <= 100)
                /\ (e.verdict = "small") => ~Emitted(e)
                /\ (e.verdict = "accepted") => Emitted(e)

\* C8 witness: an image of 101x100 went through the filter and was kept.
C8_Witness ==
    \E k \in 1..Len(log) :
        /\ log[k].img.width = 101 /\ log[k].img.height = 100
        /\ log[k].verdict = "accepted"

\* C9 as stated: after the fan-out there is one entry per extracted image, in
\* the order of extraction; a failed image carries the sentinel and every other
\* image carries the text of its response.
C9_CaptionIsResponseText ==
    \A d \in Docs :
        Captioned(d) =>
            /\ Len(images[d]) = Len(extracted[d])
            /\ \A i \in 1..Len(images[d]) :
                 images[d][i].caption =
                    (IF capcalls[d][i].kind = "text" THEN capcalls[d][i].text ELSE Sentinel)

\* C9 amended: after the fan-out there is one entry per extracted image, entry i
\* being extracted image i with a caption added; a failed image carries the
\* sentinel, every other image carries the text of its response with leading
\* and trailing whitespace removed, and no captioning failure reaches
\* process_pdf_document.
C9_CaptionIsStrippedResponseText ==
    \A d \in Docs :
        /\ failedAt[d] # "caption"
        /\ Captioned(d) =>
            /\ Len(images[d]) = Len(extracted[d])
            /\ \A i \in 1..Len(images[d]) :
                 /\ \A f \in DOMAIN extracted[d][i] : images[d][i][f] = extracted[d][i][f]
                 /\ capcalls[d][i].kind # "text" => images[d][i].caption = <<"Error generating caption">>
                 /\ capcalls[d][i].kind = "text" =>
                        /\ images[d][i].caption \in {<<"A">>}
                        /\ images[d][i].caption = Strip(capcalls[d][i].text)

\* C9 witness: two images, the second captioned first; one call failed and the
\* other answered.
C9_Witness ==
    \E d \in Docs :
        /\ Captioned(d)
        /\ Len(images[d]) = 2
        /\ capOrder[d] = <<2, 1>>
        /\ capcalls[d][1].kind = "raise"
        /\ capcalls[d][2].kind = "text"

\* C10: no constructor raises, and an image processed by an agent without a
\* database connection that passes the size filter is always put in the output.
C10_NoStoreMeansNoDedup ==
    /\ ~ctorRaised
    /\ \A k \in 1..Len(log) :
         (~log[k].conn /\ AboveThreshold(log[k])) =>
             /\ log[k].verdict = "accepted"
             /\ Emitted(log[k])

\* C10 witness: two identical images in one document, extracted by an agent
\* whose store could not be initialised, both in the output.
C10_Witness ==
    \E j, k \in 1..Len(log) :
        /\ j < k
        /\ log[j].doc = log[k].doc
        /\ ~log[j].conn
        /\ AboveThreshold(log[j])
        /\ log[j].img.bytes = log[k].img.bytes /\ AboveThreshold(log[k])
        /\ Emitted(log[j]) /\ Emitted(log[k])
        /\ image_hashes = <<>>


\* ---- C11
\* The images of document d that the loop body accepted, as the records it
\* appended, in the order it met them.
RECURSIVE AcceptedRecords(_, _)
AcceptedRecords(d, h) ==
    IF h = <<>> THEN <<>>
    ELSE LET e == Head(h)
         IN  IF e.doc = d /\ e.verdict = "accepted"
             THEN <<ImageRecord(e.img, e.page, e.index, e.saveOk)>> \o AcceptedRecords(d, Tail(h))
             ELSE AcceptedRecords(d, Tail(h))

\* C11 as stated: extract_images_from_pdf never raises, and after a
\* document-level failure the sequence it returns is empty.
C11_DocFailureReturnsEmpty ==
    \A d \in Docs :
        /\ pc[d] # "extract_raised"
        /\ pc[d] = "extract_failed" => images[d] = <<>>

\* C11 amended: extract_images_from_pdf never raises, and after a
\* document-level failure it returns exactly the images accepted before the
\* failure (none when the failure came before any image was accepted).
C11_DocFailureReturnsAcceptedSoFar ==
    \A d \in Docs :
        /\ pc[d] # "extract_raised"
        /\ pc[d] = "extract_failed" => images[d] = AcceptedRecords(d, log)

\* A document failed after one of its images had been accepted.
C11_Witness ==
    \E d \in Docs :
        /\ pc[d] = "extract_failed"
        /\ \E k \in 1..Len(log) : log[k].doc = d /\ log[k].verdict = "accepted"

\* ---- C12
\* generate_report has returned a report.
ReportBuilt == "report" \in DOMAIN report

AttachmentItems == {i \in 1..Len(summaries) : summaries[i].type = "attachment"}

\* C12: the report holds one entry for every attachment summary it was
\* given, succeeded or failed; a failed attachment artifact is never left out
\* of attachment_summaries.
C12_ReportHasEveryAttachment ==
    ReportBuilt =>
        Len(report.report.attachment_summaries) = Cardinality(AttachmentItems)

\* ---- C13
\* C13: the attachment entries of the report are in the same relative order
\* as the attachment items of the summaries list: the entries are the image of
\* an increasing choice of attachment items.
C13_AttachmentOrderPreserved ==
    ReportBuilt =>
        LET out == report.report.attachment_summaries
        IN  \E f \in [1..Len(out) -> 1..Len(summaries)] :
                /\ \A i \in 1..Len(out) :
                       /\ summaries[f[i]].type = "attachment"
                       /\ "metadata" \in DOMAIN summaries[f[i]].summary
                       /\ "summary" \in DOMAIN summaries[f[i]].summary
                       /\ out[i] = AttachmentEntry(summaries[f[i]])
                /\ \A i, j \in 1..Len(out) : i < j => f[i] < f[j]

\* A report with entries for two different documents, a failed attachment
\* between them in the input.
C13_Witness ==
    /\ ReportBuilt
    /\ Len(report.report.attachment_summaries) = 2
    /\ report.report.attachment_summaries[1].filename
         # report.report.attachment_summaries[2].filename
    /\ \E i \in AttachmentItems : ~summaries[i].summary.success

\* ---- C14
\* The try body of document d has decided its outcome and the run it last
\* received has a terminal status.
DecidedOnTerminalRun(d) ==
    /\ pc[d] \in {"finally_thread", "finally_file", "finish"}
    /\ run[d].status \in Terminal

\* The failure reason of a run that ended other than completed names the
\* status and the remote last error.
StatusFailureArtifact(d) ==
    /\ pending[d].kind = "return"
    /\ ~pending[d].value.success
    /\ run[d].status \in Range(pending[d].value.error)
    /\ run[d].last_error \in Range(pending[d].value.error)

\* C14 as stated: once the run has a terminal status the outcome is determined
\* by it: success exactly when it is completed, and for failed, cancelled and
\* expired a failure whose reason holds the status and the remote last error.
C14_OutcomeDeterminedByStatus ==
    \A d \in Docs :
        DecidedOnTerminalRun(d) =>
            /\ pending[d].kind = "return"
            /\ pending[d].value.success <=> run[d].status = "completed"
            /\ run[d].status # "completed" => StatusFailureArtifact(d)

\* C14 amended: success exactly when the status is completed and the
\* retrieval of the narrative did not raise; for failed, cancelled and
\* expired as stated.
C14_OutcomeDeterminedByStatusAndRetrieval ==
    \A d \in Docs :
        DecidedOnTerminalRun(d) =>
            /\ pending[d].kind = "return"
            /\ pending[d].value.success <=>
                   (run[d].status = "completed" /\ failedAt[d] # "list")
            /\ run[d].status # "completed" => StatusFailureArtifact(d)

\* A run that failed with a remote error, and its session's outcome decided.
C14_Witness ==
    \E d \in Docs :
        /\ pc[d] = "finish"
        /\ run[d] = [status |-> "failed", last_error |-> "server_error"]
        /\ polls[d] > 0

\* ---- C15
\* C15: every artifact process_pdf_document returns has key summary exactly
\* when success is true and key error exactly when success is false.
C15_SummaryIffSuccessErrorIffFailure ==
    \A d \in Docs :
        result[d].kind = "return" =>
            LET a == result[d].value
            IN  /\ "summary" \in DOMAIN a <=> a.success
                /\ "error" \in DOMAIN a <=> ~a.success

\* A session returned the artifact of a completed run.
C15_Witness ==
    \E d \in Docs :
        /\ result[d].kind = "return"
        /\ result[d].value.success
        /\ delThreadCalls[d] = 1

\* ---- C16
\* C16: a task cancelled while suspended, in the caption fan-out or in the
\* poll wait, still tears down: the conversation and the uploaded document
\* that were created get their delete call before the task finishes, and the
\* task ends as cancelled.
C16_CancelledTaskTearsDownAndEndsCancelled ==
    \A d \in Docs :
        (Finished(d) /\ cancelled[d] # "no") =>
            /\ thread[d] = "set" => delThreadCalls[d] = 1
            /\ file_id[d] = "set" => delFileCalls[d] = 1
            /\ result[d].kind = "raise"
            /\ result[d].exc = "CancelledError"

\* ---- C17
\* The check-and-insert of log entry e was carried out by the store: the
\* agent's connection was open and neither statement failed.
StoreChecked(e) == e.conn /\ e.dbo = "ok" /\ e.verdict \in {"accepted", "duplicate"}

StageAt(p) ==
    CASE p = "new" -> 0
      [] p \in {"extract", "extract_end", "extract_failed"} -> 1
      [] p = "captioning" -> 2
      [] p = "upload" -> 3
      [] p = "assistant" -> 4
      [] p = "thread" -> 5
      [] p = "message" -> 6
      [] p = "run" -> 7
      [] p \in {"loop", "sleeping"} -> 8
      [] OTHER -> 9

\* What the earlier stages must have left behind for the task to be at its stage.
EarlierStagesReturned(d) ==
    LET at == StageAt(pc[d])
    IN  /\ at \in 3..8 => /\ extracted[d] = AcceptedRecords(d, log)
                          /\ \A i \in 1..Len(capcalls[d]) : capcalls[d][i] # Nothing
                          /\ \A i \in 1..Len(images[d]) : "caption" \in DOMAIN images[d][i]
        /\ at \in 4..8 => file_id[d] = "set"
        /\ at \in 5..8 => assistant[agent[d]]
        /\ at \in 6..8 => thread[d] = "set"
        /\ at = 8 <=> run[d] # NoRun /\ pc[d] \notin {"finally_thread", "finally_file", "finish"}
        /\ polls[d] > 0 => run[d] # NoRun
        /\ (pending[d].kind = "return" /\ pending[d].value.success)
              => (run[d].status = "completed" \/ pc[d] = "done")

\* C18: the stages of one document come strictly in the order extraction,
\* captioning of all images, upload, conversation creation, message send, run
\* creation, status polls, narrative retrieval; a stage starts only when the
\* one before it has returned, and once a stage has failed only teardown
\* follows.
C18_StagesStrictlySequential ==
    /\ [](\A d \in Docs :
            /\ EarlierStagesReturned(d)
            /\ failedAt[d] # "none" => StageAt(pc[d]) = 9)
    /\ [][\A d \in Docs :
            \/ pc'[d] = pc[d]
            \/ StageAt(pc'[d]) = StageAt(pc[d])
            \/ StageAt(pc'[d]) = StageAt(pc[d]) + 1
            \/ StageAt(pc'[d]) = 9
            \/ StageAt(pc[d]) = 1 /\ StageAt(pc'[d]) = 3 /\ images[d] = <<>>]_vars

\* A session that went through every stage, with an image and a poll.
C18_Witness ==
    \E d \in Docs :
        /\ pc[d] = "finish"
        /\ pending[d].kind = "return" /\ pending[d].value.success
        /\ polls[d] > 0
        /\ images[d] # <<>>

\* ---- C19
\* The run of document d exists and its last received status is not terminal.
RunPending(d) == run[d] # NoRun /\ run[d].status \notin Terminal

\* Between two retrievals the task sleeps: a retrieval is made only by a task
\* that is asleep with the event loop in control, it wakes the task, and the
\* task falls asleep only by giving up control.
SleepsBetweenPolls(d) ==
    /\ polls'[d] > polls[d] =>
          /\ polls'[d] = polls[d] + 1
          /\ pc[d] = "sleeping" /\ running = 0
          /\ pc'[d] # "sleeping" /\ running' = d
    /\ (pc'[d] = "sleeping" /\ pc[d] # "sleeping") =>
          /\ running = d /\ running' = 0
          /\ polls'[d] = polls[d]

\* C19 as stated: while the run status is outside the terminal set the
\* session reports no outcome, and it never polls twice without sleeping in
\* between.
C19_NoOutcomeWhilePending ==
    /\ [](\A d \in Docs : RunPending(d) => pending[d].kind # "return")
    /\ [][\A d \in Docs : SleepsBetweenPolls(d)]_vars

\* C19 amended: while the run status is outside the terminal set and no
\* call of the session has raised, the session reports no outcome; and it
\* never polls twice without sleeping in between.
C19_NoOutcomeWhilePendingUnlessRaised ==
    /\ [](\A d \in Docs :
            (RunPending(d) /\ failedAt[d] = "none") => pending[d].kind # "return")
    /\ [][\A d \in Docs : SleepsBetweenPolls(d)]_vars

\* A session that has retrieved the status twice and still sees it pending.
C19_Witness ==
    \E d \in Docs : polls[d] >= 2 /\ pc[d] = "loop"

\* ---- C20
\* Every started process_pdf_document finishes.
SessionTerminates == \A d \in Docs : (pc[d] # "new") ~> Finished(d)

\* The poll loop is left only with a terminal status or by a call that raised.
LoopExit(d) ==
    (pc[d] \in {"loop", "sleeping"} /\ pc'[d] \notin {"loop", "sleeping"}) =>
        (run'[d].status \in Terminal \/ failedAt'[d] = "poll")

\* The teardown of a finished session was executed: the conversation and the
\* uploaded document it had created each got their delete call.
TeardownExecuted(d) ==
    /\ threads[d] # "none" \/ thread[d] = "set" => delThreadCalls[d] = 1
    /\ files[d] # "none" \/ file_id[d] = "set" => delFileCalls[d] = 1

\* Termination alone: every started session finishes, and its poll loop is
\* left in no other way.
TerminatesAndLoopExit ==
    /\ SessionTerminates
    /\ [][\A d \in Docs : LoopExit(d)]_vars

\* C20: given that the run reports a terminal status in the end (or a remote
\* call raises), every started process_pdf_document finishes and its teardown
\* is executed; the poll loop has no other exit.
C20_FinishesWithTeardown ==
    /\ TerminatesAndLoopExit
    /\ [](\A d \in Docs : Finished(d) => TeardownExecuted(d))

\* ---- C21
\* C21: every artifact process_pdf_document returns, success or failure,
\* carries metadata that holds the document's filename.
C21_ArtifactCarriesFilename ==
    \A d \in Docs :
        result[d].kind = "return" =>
            /\ "metadata" \in DOMAIN result[d].value
            /\ result[d].value.metadata.filename = Basename(PdfPath(d))

\* ---- C22
\* The task of document d issues one of its external calls in this step:
\* upload, conversation creation, message send, run creation, or a status
\* retrieval.
NetworkCallStep(d) ==
    \/ pc[d] \in {"upload", "thread", "message", "run"} /\ pc'[d] # pc[d]
    \/ polls'[d] > polls[d]

\* C22: a session's external calls are suspension points: the step that
\* issues the call hands control to the event loop, so that a sibling task can
\* take a step while the call is in flight.
C22_NetworkCallsYield ==
    [][\A d \in Docs : NetworkCallStep(d) => running' = 0]_vars

\* ---- C23
\* C23: two extractions in true parallel over the same bytes can both read
\* "not present" and both accept the image (nothing locks the check-and-insert),
\* and the store still never holds more than one record of a fingerprint: once
\* an image has been accepted its fingerprint is recorded exactly once.
C23_RaceLeavesOneRecord ==
    /\ \A k \in 1..Len(image_hashes) : Rows(image_hashes[k]) = 1
    /\ \A k \in 1..Len(log) :
          log[k].verdict = "accepted" => Rows(Sha256(log[k].img.bytes)) = 1
    /\ \A d \in Docs :
          (pc[d] = "par_insert" /\ Sha256(inhand[d].bytes) \in Range(image_hashes))
              => \E e \in Docs \ {d} : \E k \in 1..Len(log) :
                    /\ log[k].doc = e
                    /\ log[k].verdict = "accepted"
                    /\ log[k].img.bytes = inhand[d].bytes

\* The race has happened: two threads accepted the same bytes, the second one
\* after its INSERT was refused, so it had read "not present" before the first
\* one's INSERT.
C23_Witness ==
    \E j, k \in 1..Len(log) :
        /\ j < k
        /\ log[j].doc # log[k].doc
        /\ log[j].img.bytes = log[k].img.bytes
        /\ log[j].verdict = "accepted" /\ log[j].dbo = "ok"
        /\ log[k].verdict = "accepted" /\ log[k].dbo = "insert_error"
        /\ Rows(Sha256(log[k].img.bytes)) = 1

\* ---- C24
\* Log entry e passed the size filter and the dedup check.
PassedFilters(e) ==
    /\ e.img.decode = "ok"
    /\ ~SkipSmall(e.img)
    /\ e.verdict # "duplicate"

\* images[d] is in page order and, within a page, in index order.
InPageOrder(d) ==
    \A i, j \in 1..Len(images[d]) :
        i < j => \/ images[d][i].page < images[d][j].page
                 \/ /\ images[d][i].page = images[d][j].page
                    /\ images[d][i].index < images[d][j].index

\* C24: an embedded image whose decoding fails is the only one left out: it
\* is not in the output, every other image of the document that passed the
\* size filter and the dedup check is, and the output is in page order and
\* then in-page order.
C24_OnlyFailedImageSkipped ==
    \A d \in Docs :
        /\ \A k \in 1..Len(log) :
              log[k].doc = d =>
                  /\ log[k].img.decode # "ok" => ~Emitted(log[k])
                  /\ PassedFilters(log[k]) => Emitted(log[k])
        /\ InPageOrder(d)

\* An image failed to decode and images before and after it, on two pages,
\* are in the returned list.
C24_Witness ==
    \E d \in Docs :
        /\ pc[d] = "returned"
        /\ Len(images[d]) = 2
        /\ images[d][1].page # images[d][2].page
        /\ \E k \in 1..Len(log) :
              /\ log[k].doc = d /\ log[k].img.decode = "raise"
              /\ log[k].page = images[d][1].page
              /\ log[k].index > images[d][1].index

\* ---- C25
\* The record of log entry e in the output of its document.
RecordOf(e) ==
    CHOOSE i \in 1..Len(images[e.doc]) :
        images[e.doc][i].page = e.page /\ images[e.doc][i].index = e.index

\* C25: an accepted image whose scratch file could not be written is still in
\* the output, with a null path; it is still sent for captioning; and its
\* fingerprint stays recorded in the store.
C25_UnsavedImageKept ==
    \A k \in 1..Len(log) :
        ~log[k].saveOk =>
            LET e == log[k]
            IN  /\ Emitted(e)
                /\ images[e.doc][RecordOf(e)].filepath = "None"
                /\ images[e.doc][RecordOf(e)].hash = Sha256(e.img.bytes)
                /\ (e.conn /\ e.dbo = "ok") => Sha256(e.img.bytes) \in Range(image_hashes)
                /\ pc[e.doc] \in {"upload", "assistant", "thread", "message", "run", "loop",
                                  "sleeping"}
                      => /\ RecordOf(e) \in DOMAIN capcalls[e.doc]
                         /\ capcalls[e.doc][RecordOf(e)] # Nothing
                         /\ "caption" \in DOMAIN images[e.doc][RecordOf(e)]

\* An image that could not be saved has been captioned and its session has
\* gone on to the upload.
C25_Witness ==
    \E k \in 1..Len(log) :
        /\ ~log[k].saveOk
        /\ log[k].conn /\ log[k].dbo = "ok"
        /\ pc[log[k].doc] = "assistant"
        /\ images[log[k].doc][1].filepath = "None"
        /\ "caption" \in DOMAIN images[log[k].doc][1]

\* ---- C26
\* The number of images of document d that extraction accepted.
AcceptedCount(d) ==
    Cardinality({k \in 1..Len(log) : log[k].doc = d /\ log[k].verdict = "accepted"})

\* C26: the message is built only when every captioning task has finished;
\* its caption block has exactly one line for each image of the extraction
\* output, in extraction order, naming the image's page, its in-page index and
\* its caption (the sentinel for a failed request); an image rejected by the
\* size filter or the dedup check has no line.
C26_OneCaptionLinePerImage ==
    \A d \in Docs :
        image_captions_text[d].kind = "lines" =>
            LET text == image_captions_text[d].lines
            IN  /\ \A i \in 1..Len(capcalls[d]) : capcalls[d][i] # Nothing
                /\ Len(text) = Len(extracted[d])
                /\ Len(text) = AcceptedCount(d)
                /\ \A i \in 1..Len(text) :
                      /\ text[i].page = extracted[d][i].page
                      /\ text[i].index = extracted[d][i].index
                      /\ capcalls[d][i].kind = "text" =>
                            text[i].caption = Strip(capcalls[d][i].text)
                      /\ capcalls[d][i].kind # "text" =>
                            text[i].caption = <<"Error generating caption">>
                /\ \A k \in 1..Len(log) :
                      (log[k].doc = d /\ log[k].verdict # "accepted") =>
                          ~\E i \in 1..Len(text) :
                              text[i].page = log[k].page /\ text[i].index = log[k].index

\* A message over two images, the caption request of the second having failed.
C26_Witness ==
    \E d \in Docs :
        /\ image_captions_text[d].kind = "lines"
        /\ Len(image_captions_text[d].lines) = 2
        /\ image_captions_text[d].lines[1].caption = <<"A">>
        /\ image_captions_text[d].lines[2].caption = <<"Error generating caption">>
        /\ pc[d] = "run"

\* ---- C27
\* Document e is document d processed again: its images were all looked up in
\* the store, after the store had recorded the same bytes for d.
Reprocessed(d, e) ==
    /\ d # e
    /\ \E k \in 1..Len(log) : log[k].doc = e
    /\ \A k \in 1..Len(log) :
          log[k].doc = e =>
              /\ log[k].conn /\ log[k].dbo = "ok"
              /\ \E j \in 1..(k - 1) :
                    /\ log[j].doc = d
                    /\ log[j].img.bytes = log[k].img.bytes
                    /\ log[j].verdict = "accepted"
                    /\ log[j].conn /\ log[j].dbo = "ok"

\* C27: no step removes a fingerprint from the store, the recorded set only
\* grows; what extraction recorded stays recorded when the document's session
\* fails, so the same document processed again yields no image.
C27_StoreAppendOnly ==
    /\ [][\A k \in 1..Len(image_hashes) :
             k <= Len(image_hashes') /\ image_hashes'[k] = image_hashes[k]]_vars
    /\ [](\A k \in 1..Len(log) :
             (log[k].verdict = "accepted" /\ log[k].conn /\ log[k].dbo = "ok")
                 => Sha256(log[k].img.bytes) \in Range(image_hashes))
    /\ [](\A d, e \in Docs : Reprocessed(d, e) => images[e] = <<>>)

\* The session of a document failed after its image was recorded, and the
\* same bytes met again in a second document were turned away.
C27_Witness ==
    \E d, e \in Docs :
        /\ Reprocessed(d, e)
        /\ Finished(d)
        /\ result[d].kind = "raise"
        /\ pc[e] = "upload"
        /\ extracted[e] = <<>>

\* ---- assistant resolution, called directly
\* The cache files left by earlier processes: none, one written for this model
\* (naming assistant 1, which exists), one written for another model, or
\* unreadable text. No file exists for "default": no call can have written it.
CacheFileStates ==
    {NoFile, Corrupt,
     CacheJson(1, [model |-> Model, tools |-> <<"file_search">>]),
     CacheJson(1, [model |-> "gpt-4", tools |-> <<"file_search">>])}

InitAssistant ==
    /\ limits = Limits({1}, SessionPool, SessionImgs, 1)
    /\ OneAgent
    /\ InitCore
    /\ cache_file \in {f \in [ProfileNames -> CacheFileStates] : f["default"] = NoFile}

NextAssistant == CallGetOrCreateAssistant

SpecAssistant == InitAssistant /\ [][NextAssistant]_vars

\* ---- C28
\* The latest call of get_or_create_assistant named a profile that is not registered.
UnknownProfileCall == lastCall.kind = "call" /\ lastCall.profile \notin Profiles

\* C28: a get_or_create_assistant call that names an unregistered profile
\* raises ValueError to its caller, also when the instance already holds an
\* assistant; it retrieves and creates no remote assistant, writes no cache
\* file, and leaves the instance's assistant as it was.
C28_UnknownProfileRaises ==
    /\ [](UnknownProfileCall =>
            /\ lastCall.result.kind = "raise"
            /\ lastCall.result.exc = "ValueError"
            /\ lastCall.retrieved = 0
            /\ lastCall.created = 0
            /\ ~lastCall.wrote)
    /\ [][(tally'.calls > tally.calls /\ UnknownProfileCall') =>
            /\ cache_file' = cache_file
            /\ remote_assistants' = remote_assistants
            /\ self_assistant' = self_assistant]_vars

\* An unregistered profile was named on an instance that had an assistant cached.
C28_Witness ==
    /\ UnknownProfileCall
    /\ lastCall.cached
    /\ self_assistant # 0
    /\ lastCall.result.kind = "raise"

InitJobs ==
    /\ limits = [Limits(1..NumJobs, BatchPool, 1, 1) EXCEPT
                    !.dbOutcomes = {"ok"}, !.saveOutcomes = {TRUE},
                    !.responses = {[kind |-> "text", text |-> <<"A">>]},
                    !.runs = {r \in Runs : r.status \in {"in_progress", "completed"}
                                            \/ r.last_error # "None"},
                    !.delOutcomes = {TRUE}, !.maxPolls = JobPolls]
    /\ AgentPerDoc
    /\ InitCommon

\* What the event loop does on its own: steps of the tasks and done callbacks.
LoopStep ==
    \E d \in Docs :
        \/ StartJob(d)
        \/ ExtractImage(d)
        \/ ExtractDocError(d)
        \/ ExtractEnd(d)
        \/ BeginCaptions(d)
        \/ \E i \in DOMAIN capcalls[d] : CaptionImage(d, i)
        \/ EndCaptions(d)
        \/ Upload(d)
        \/ ResolveAssistant(d)
        \/ CreateThread(d)
        \/ SendMessage(d)
        \/ CreateRun(d)
        \/ PollSleep(d)
        \/ PollRetrieve(d)
        \/ RunNotCompleted(d)
        \/ RetrieveNarrative(d)
        \/ FinallyThread(d)
        \/ FinallyFile(d)
        \/ Finish(d)
        \/ DoneCallback(d)

NextJobs ==
    \/ LoopStep
    \/ \E d \in Docs :
        \/ SubmitPdfJob(d)
        \/ Cancel(d)
        \/ CancelUnstarted(d)

SpecJobs == InitJobs /\ [][NextJobs]_vars /\ WF_vars(LoopStep)

\* ---- C30
\* submit_pdf_job has returned the task of job d.
Submitted(d) == callbacks[d] # "none"

\* C30: a job submitted with submit_pdf_job is in background_tasks as long as
\* it has not finished, leaves the set only once it has finished, and once it
\* has finished (by returning, raising or being cancelled) it is eventually
\* out of the set.
C30_JobTrackedUntilDone ==
    /\ [](\A d \in Docs : (Submitted(d) /\ ~Finished(d)) => d \in background_tasks)
    /\ [][\A d \in Docs : (d \in background_tasks /\ d \notin background_tasks')
                            => Finished(d)]_vars
    /\ \A d \in Docs : (Submitted(d) /\ Finished(d)) ~> (d \notin background_tasks)

\* A job that was cancelled in its polling sleep has finished with
\* CancelledError and its done callback has taken it out of the set.
C30_Witness ==
    \E d \in Docs :
        /\ Finished(d)
        /\ cancelled[d] = "sleeping"
        /\ result[d].kind = "raise"
        /\ callbacks[d] = "run"
        /\ d \notin background_tasks

============================================================================
